---- MODULE Spec2Model ----
(***************************************************************************)
(* LogisticsOptimizer (src/main.py): the network held by one optimizer     *)
(* object (a networkx Graph, the locations dict and the edge_weights       *)
(* dict), the routing engine (dijkstra, find_multi_stop_route) and the     *)
(* handlers of the form that query and edit the network.                   *)
(*                                                                         *)
(* Numbers: the sample weights are integers and the form's entries go      *)
(* through float(); the entries drawn here denote integers, negative ones  *)
(* included.  float('inf') is kept apart from the integers (a flag), the   *)
(* value None is kept apart from lists (a flag).  Positions are the        *)
(* sample's coordinates times ten.                                         *)
(***************************************************************************)
EXTENDS Integers, Sequences, FiniteSets, TLC

VARIABLES
    nodes,          \* self.graph: the nodes
    node_pos,       \* self.graph: the 'pos' attribute of the nodes that have one
    edges,          \* self.graph: {u, v} -> [distance, time, cost]
    locations,      \* self.locations: name -> pos
    edge_weights,   \* self.edge_weights: <<from, to>> -> [distance, time, cost]
    offered,        \* every value the comboboxes have offered so far
    listbox,        \* the items of stops_listbox
    ops,            \* edits of the network made so far
    ret             \* the call in progress: its arguments and its outcome

vars == <<nodes, node_pos, edges, locations, edge_weights, offered, listbox, ops, ret>>

----------------------------------------------------------------------------
(* Bounds and input sets *)

\* Edits (add location, add route, remove location) in one run.
MaxOps == 2

\* Items selected together in the stops listbox.
MaxStops == 2

Metrics == {"distance", "time", "cost"}

\* Python's order of the names in use (str.__lt__), least first.
NameOrder ==
    <<"City_A", "City_B", "City_C", "City_D", "City_E", "Depot",
      "Hub_1", "Hub_2", "Warehouse">>

Names == {NameOrder[i] : i \in 1..Len(NameOrder)}

\* Texts typed in the name entry of "Add Location".
NameTexts == {"", " Depot ", "Hub_1"}

\* The position random.uniform gives a new location.
RandomPos == {<<2, 7>>}

\* Texts typed in the distance, time and cost entries of "Add Route".
RouteForms == {<<"70", "9", "4">>, <<"-30", "9", "4">>, <<"7", "", "4">>}

\* What the user picks in the From/To comboboxes, in the Remove combobox,
\* in the start combobox and the stops listbox, and the arguments of a
\* direct shortest-path call.
RoutePicks  == {"", "Warehouse", "City_A", "Depot"}
RemovePicks == {"", "Warehouse", "Hub_1", "Depot"}
StartPicks  == {"Warehouse", "City_B"}
StopPicks   == {"City_A", "City_B", "City_E", "Depot"}
QueryPicks  == {"Warehouse", "City_A", "City_B", "City_E", "Depot"}

----------------------------------------------------------------------------
(* Values *)

W(d, t, c) == [distance |-> d, time |-> t, cost |-> c]

Pair(u, v) == {u, v}

RECURSIVE SumSeq(_)
SumSeq(s) == IF s = <<>> THEN 0 ELSE Head(s) + SumSeq(Tail(s))

SeqSet(s) == {s[i] : i \in 1..Len(s)}

Perms(S) == {p \in [1..Cardinality(S) -> S] : \A x \in S : \E i \in DOMAIN p : p[i] = x}

\* str.strip() on the texts of NameTexts.
Strip(text) ==
    CASE text = " Depot " -> "Depot"
      [] OTHER -> text

\* float() on the texts of RouteForms: the number, or ValueError.
FloatOf(text) ==
    CASE text = "7"   -> [ok |-> TRUE, v |-> 7]
      [] text = "70"  -> [ok |-> TRUE, v |-> 70]
      [] text = "9"   -> [ok |-> TRUE, v |-> 9]
      [] text = "4"   -> [ok |-> TRUE, v |-> 4]
      [] text = "-30" -> [ok |-> TRUE, v |-> -30]
      [] OTHER        -> [ok |-> FALSE, v |-> 0]

----------------------------------------------------------------------------
(* initialize_sample_data *)

sample_locations ==
    [n \in {"Warehouse", "City_A", "City_B", "City_C", "City_D", "City_E",
            "Hub_1", "Hub_2"} |->
        CASE n = "Warehouse" -> <<1, 5>>
          [] n = "City_A"    -> <<3, 8>>
          [] n = "City_B"    -> <<5, 6>>
          [] n = "City_C"    -> <<7, 9>>
          [] n = "City_D"    -> <<6, 3>>
          [] n = "City_E"    -> <<9, 5>>
          [] n = "Hub_1"     -> <<4, 4>>
          [] n = "Hub_2"     -> <<7, 6>>]

sample_edges ==
    << <<"Warehouse", "City_A", W(25, 30, 15)>>,
       <<"Warehouse", "Hub_1",  W(20, 25, 12)>>,
       <<"City_A",    "City_B", W(18, 22, 10)>>,
       <<"City_B",    "Hub_1",  W(15, 18, 9)>>,
       <<"City_B",    "City_C", W(22, 28, 13)>>,
       <<"City_B",    "Hub_2",  W(16, 20, 11)>>,
       <<"City_C",    "Hub_2",  W(12, 15, 8)>>,
       <<"City_C",    "City_E", W(20, 24, 12)>>,
       <<"Hub_1",     "City_D", W(14, 17, 9)>>,
       <<"City_D",    "Hub_2",  W(13, 16, 8)>>,
       <<"City_D",    "City_E", W(19, 23, 11)>>,
       <<"Hub_2",     "City_E", W(17, 21, 10)>> >>

----------------------------------------------------------------------------
(* The network: dict and networkx.Graph operations *)

Put(f, k, v) == [x \in DOMAIN f \cup {k} |-> IF x = k THEN v ELSE f[x]]

Del(f, k) == [x \in DOMAIN f \ {k} |-> f[x]]

EmptyDict == [x \in {} |-> 0]

\* The optimizer's network as one value.
Net(n, np, e, l, ew) ==
    [nodes |-> n, node_pos |-> np, edges |-> e, locations |-> l, edge_weights |-> ew]

EmptyNet == Net({}, EmptyDict, EmptyDict, EmptyDict, EmptyDict)

CurrentNet == Net(nodes, node_pos, edges, locations, edge_weights)

\* Graph.add_node(name, pos=pos): a new node, or the attribute of an old one.
graph_add_node(net, name, pos) ==
    [net EXCEPT !.nodes = @ \cup {name}, !.node_pos = Put(@, name, pos)]

\* Graph.add_edge(u, v, distance=, time=, cost=): the endpoints become nodes
\* (with no attribute) when they are none, and the edge's attributes are set.
graph_add_edge(net, u, v, w) ==
    [net EXCEPT !.nodes = @ \cup {u, v}, !.edges = Put(@, Pair(u, v), w)]

\* Graph.remove_node(n): the node, its attributes and its edges.
graph_remove_node(net, n) ==
    [net EXCEPT !.nodes = @ \ {n},
                !.node_pos = Del(@, n),
                !.edges = [p \in {q \in DOMAIN @ : n \notin q} |-> @[p]]]

\* Graph.has_edge(u, v)
has_edge(e, u, v) == Pair(u, v) \in DOMAIN e

\* Graph.neighbors(n), for a node n
neighbors(e, n) == {m \in UNION (DOMAIN e) : m # n /\ Pair(n, m) \in DOMAIN e}

add_location(net, name, pos) ==
    [graph_add_node(net, name, pos) EXCEPT !.locations = Put(@, name, pos)]

add_route(net, from_loc, to_loc, distance, time, cost) ==
    [graph_add_edge(net, from_loc, to_loc, W(distance, time, cost))
        EXCEPT !.edge_weights = Put(@, <<from_loc, to_loc>>, W(distance, time, cost))]

RECURSIVE AddSampleLocations(_, _)
AddSampleLocations(net, todo) ==
    IF todo = {} THEN net
    ELSE LET loc == CHOOSE x \in todo : TRUE
         IN AddSampleLocations(add_location(net, loc, sample_locations[loc]), todo \ {loc})

RECURSIVE AddSampleRoutes(_, _)
AddSampleRoutes(net, todo) ==
    IF todo = <<>> THEN net
    ELSE LET r == Head(todo)
         IN AddSampleRoutes(
                add_route(net, r[1], r[2], r[3].distance, r[3].time, r[3].cost),
                Tail(todo))

initialize_sample_data(net) ==
    AddSampleRoutes(AddSampleLocations(net, DOMAIN sample_locations), sample_edges)

SampleNet == initialize_sample_data(EmptyNet)

----------------------------------------------------------------------------
(* dijkstra *)

\* Python's order on the names.
RankOf == [n \in Names |-> CHOOSE i \in 1..Len(NameOrder) : NameOrder[i] = n]

NameRank(n) == RankOf[n]

RECURSIVE ListLess(_, _)
ListLess(a, b) ==
    IF a = <<>> THEN b # <<>>
    ELSE IF b = <<>> THEN FALSE
    ELSE IF Head(a) # Head(b) THEN NameRank(Head(a)) < NameRank(Head(b))
    ELSE ListLess(Tail(a), Tail(b))

\* The order of the queue's tuples (weight, current_node, path).
TupleLess(a, b) ==
    \/ a.weight < b.weight
    \/ a.weight = b.weight /\ NameRank(a.node) < NameRank(b.node)
    \/ a.weight = b.weight /\ a.node = b.node /\ ListLess(a.path, b.path)

\* A queue ordered by the node's name before the weight.
HeapMin_ByName(pq) ==
    CHOOSE a \in pq : \A b \in pq \ {a} :
        \/ NameRank(a.node) < NameRank(b.node)
        \/ a.node = b.node /\ a.weight < b.weight

\* heapq.heappop: the least tuple of the queue.
HeapMin(pq) == CHOOSE a \in pq : \A b \in pq \ {a} : TupleLess(a, b)

\* A key no edge carries: every route weighs the default, 1.
EdgeWeight_WrongKey(e, u, v, weight_type) ==
    IF "weight" \in DOMAIN e[Pair(u, v)] THEN e[Pair(u, v)]["weight"] ELSE 1

\* edge_data.get(weight_type, 1)
EdgeWeight(e, u, v, weight_type) ==
    IF weight_type \in DOMAIN e[Pair(u, v)] THEN e[Pair(u, v)][weight_type] ELSE 1

\* float('inf'), and the test new_weight < distances[neighbor]
InfDist == [inf |-> TRUE, v |-> 0]
Fin(x) == [inf |-> FALSE, v |-> x]
LessDist(x, d) == d.inf \/ x < d.v

\* The three ways a call of dijkstra ends: a path and its weight, (None,
\* float('inf')), or the NetworkXError of Graph.neighbors.
Found(path, weight) == [kind |-> "path", path |-> path, weight |-> weight]
NotFound == [kind |-> "none", path |-> <<>>, weight |-> 0]
Raised == [kind |-> "raised", path |-> <<>>, weight |-> 0]

\* The while loop of dijkstra.  The neighbours of one node are distinct, so
\* the order of the for loop does not show in distances or in the queue.
RECURSIVE DijkstraLoop(_, _, _, _, _, _, _)
DijkstraLoop(n, e, pq, visited, distances, end, weight_type) ==
    IF pq = {} THEN NotFound
    ELSE
      LET top == HeapMin(pq)
          rest == pq \ {top}
      IN IF top.node \in visited
           THEN DijkstraLoop(n, e, rest, visited, distances, end, weight_type)
         ELSE IF top.node = end
           THEN Found(top.path, top.weight)
         ELSE IF top.node \notin n
           THEN Raised
         ELSE
           LET visited1 == visited \cup {top.node}
               new_weight(nb) == top.weight + EdgeWeight(e, top.node, nb, weight_type)
               better == {nb \in neighbors(e, top.node) \ visited1 :
                            LessDist(new_weight(nb), distances[nb])}
               distances1 == [x \in DOMAIN distances |->
                                IF x \in better THEN Fin(new_weight(x)) ELSE distances[x]]
               pushed == {[weight |-> new_weight(nb), node |-> nb,
                           path |-> Append(top.path, nb)] : nb \in better}
           IN DijkstraLoop(n, e, rest \cup pushed, visited1, distances1, end, weight_type)

dijkstra(net, start, end, weight_type) ==
    DijkstraLoop(net.nodes, net.edges,
                 {[weight |-> 0, node |-> start, path |-> <<start>>]},
                 {},
                 [x \in net.nodes \cup {start} |-> IF x = start THEN Fin(0) ELSE InfDist],
                 end, weight_type)

----------------------------------------------------------------------------
(* find_multi_stop_route *)

NoBest == [nearest |-> "", found |-> FALSE, min_dist |-> InfDist, best_path |-> <<>>,
           raised |-> FALSE]

\* The for loop over unvisited, in the order the set yields its members:
\* a stop replaces the best one when dijkstra gave a path and dist < min_dist.
RECURSIVE ScanStops(_, _, _, _, _)
ScanStops(net, current, todo, weight_type, best) ==
    IF todo = <<>> THEN best
    ELSE
      LET stop == Head(todo)
          r == dijkstra(net, current, stop, weight_type)
      IN IF r.kind = "raised" THEN [best EXCEPT !.raised = TRUE]
         ELSE IF r.kind = "path" /\ r.path # <<>> /\ LessDist(r.weight, best.min_dist)
           THEN ScanStops(net, current, Tail(todo), weight_type,
                          [nearest |-> stop, found |-> TRUE, min_dist |-> Fin(r.weight),
                           best_path |-> r.path, raised |-> FALSE])
         ELSE ScanStops(net, current, Tail(todo), weight_type, best)

Routed(route, total_weight) == [kind |-> "route", route |-> route, total_weight |-> total_weight]
RouteRaised == [kind |-> "raised", route |-> <<>>, total_weight |-> 0]

\* The while loop.  order is the order in which the set unvisited yields
\* its members; removing a member leaves the others in place.
RECURSIVE MultiStopLoop(_, _, _, _, _, _, _)
MultiStopLoop(net, current, order, unvisited, route, total_weight, weight_type) ==
    IF unvisited = {} THEN Routed(route, total_weight)
    ELSE
      LET best == ScanStops(net, current, SelectSeq(order, LAMBDA x : x \in unvisited),
                            weight_type, NoBest)
      IN IF best.raised THEN RouteRaised
         ELSE IF ~best.found THEN Routed(route, total_weight)
         ELSE MultiStopLoop(net, best.nearest, order, unvisited \ {best.nearest},
                            route \o Tail(best.best_path),
                            total_weight + best.min_dist.v, weight_type)

\* stops is given by the order in which set(stops) yields its members.
find_multi_stop_route(net, start, order, weight_type) ==
    IF order = <<>> THEN Routed(<<start>>, 0)
    ELSE MultiStopLoop(net, start, order, SeqSet(order), <<start>>, 0, weight_type)

----------------------------------------------------------------------------
(* The calls and their outcomes *)

NoCall ==
    [op |-> "none", outcome |-> "", a |-> "", b |-> "", stops |-> {}, metric |-> "",
     w |-> W(0, 0, 0), pos |-> <<0, 0>>, path |-> <<>>, weight |-> 0,
     totals |-> W(0, 0, 0), stops_visited |-> 0]

\* draw_network raises when a node has no 'pos' attribute: networkx finds no
\* position to draw it at.
DrawRaises(net) == \E n \in net.nodes : n \notin DOMAIN net.node_pos

DrawOutcome(net) == IF DrawRaises(net) THEN "draw_raised" ELSE "ok"

\* The loop of calculate_route over the consecutive pairs of the route.
RouteTotals(e, route) ==
    LET on == {i \in 1..(Len(route) - 1) : has_edge(e, route[i], route[i + 1])}
        Sum(key) == SumSeq([i \in 1..(Len(route) - 1) |->
                              IF i \in on THEN e[Pair(route[i], route[i + 1])][key] ELSE 0])
    IN W(Sum("distance"), Sum("time"), Sum("cost"))

\* calculate_route, with the start combobox at start, the listbox selection
\* selected and the radio button at weight_type.
calculate_route(net, start, selected, weight_type, order) ==
    LET call == [NoCall EXCEPT !.op = "calculate_route", !.a = start, !.metric = weight_type]
        stops == selected \ {start}
    IN IF start = "" THEN [call EXCEPT !.outcome = "warning"]
       ELSE IF stops = {} THEN [call EXCEPT !.outcome = "warning"]
       ELSE
         LET r == find_multi_stop_route(net, start, order, weight_type)
         IN IF r.kind = "raised" THEN [call EXCEPT !.outcome = "raised", !.stops = stops]
            ELSE [call EXCEPT !.outcome = DrawOutcome(net),
                              !.stops = stops,
                              !.path = r.route,
                              !.weight = r.total_weight,
                              !.totals = RouteTotals(net.edges, r.route),
                              !.stops_visited = Cardinality(stops)]

\* add_new_location without the test name in self.graph.nodes().
add_new_location_NoCheck(net, text, pos) ==
    LET name == Strip(text)
        call == [NoCall EXCEPT !.op = "add_new_location", !.a = name, !.pos = pos]
    IN IF name = "" THEN [net |-> net, ret |-> [call EXCEPT !.outcome = "warning"]]
       ELSE LET net1 == add_location(net, name, pos)
            IN [net |-> net1, ret |-> [call EXCEPT !.outcome = DrawOutcome(net1)]]

\* add_new_location with text in the name entry; pos is the random position.
add_new_location(net, text, pos) ==
    LET name == Strip(text)
        call == [NoCall EXCEPT !.op = "add_new_location", !.a = name, !.pos = pos]
    IN IF name = "" THEN [net |-> net, ret |-> [call EXCEPT !.outcome = "warning"]]
       ELSE IF name \in net.nodes
         THEN [net |-> net, ret |-> [call EXCEPT !.outcome = "exists"]]
       ELSE LET net1 == add_location(net, name, pos)
            IN [net |-> net1, ret |-> [call EXCEPT !.outcome = DrawOutcome(net1)]]

\* add_new_route with the comboboxes at from_loc and to_loc and form in the
\* three entries.
add_new_route(net, from_loc, to_loc, form) ==
    LET call == [NoCall EXCEPT !.op = "add_new_route", !.a = from_loc, !.b = to_loc]
        distance == FloatOf(form[1])
        time == FloatOf(form[2])
        cost == FloatOf(form[3])
    IN IF from_loc = "" \/ to_loc = ""
         THEN [net |-> net, ret |-> [call EXCEPT !.outcome = "warning"]]
       ELSE IF from_loc = to_loc
         THEN [net |-> net, ret |-> [call EXCEPT !.outcome = "same"]]
       ELSE IF ~(distance.ok /\ time.ok /\ cost.ok)
         THEN [net |-> net, ret |-> [call EXCEPT !.outcome = "invalid"]]
       ELSE LET net1 == add_route(net, from_loc, to_loc, distance.v, time.v, cost.v)
            IN [net |-> net1,
                ret |-> [call EXCEPT !.outcome = DrawOutcome(net1),
                                     !.w = W(distance.v, time.v, cost.v)]]

\* remove_location with the combobox at loc; confirm is the answer to askyesno.
remove_location(net, loc, confirm) ==
    LET call == [NoCall EXCEPT !.op = "remove_location", !.a = loc]
    IN IF loc = "" THEN [net |-> net, ret |-> [call EXCEPT !.outcome = "warning"]]
       ELSE IF ~confirm THEN [net |-> net, ret |-> [call EXCEPT !.outcome = "cancelled"]]
       ELSE IF loc \notin net.nodes
         THEN [net |-> net, ret |-> [call EXCEPT !.outcome = "raised"]]
       ELSE LET net1 == [graph_remove_node(net, loc) EXCEPT
                            !.locations = IF loc \in DOMAIN @ THEN Del(@, loc) ELSE @]
            IN [net |-> net1, ret |-> [call EXCEPT !.outcome = DrawOutcome(net1)]]

----------------------------------------------------------------------------
(* The state machine *)

Init ==
    /\ nodes = SampleNet.nodes
    /\ node_pos = SampleNet.node_pos
    /\ edges = SampleNet.edges
    /\ locations = SampleNet.locations
    /\ edge_weights = SampleNet.edge_weights
    /\ offered = SampleNet.nodes
    /\ listbox = SampleNet.nodes
    /\ ops = 0
    /\ ret = NoCall

Idle == ret.op = "none"

SetNet(net) ==
    /\ nodes' = net.nodes
    /\ node_pos' = net.node_pos
    /\ edges' = net.edges
    /\ locations' = net.locations
    /\ edge_weights' = net.edge_weights

\* update_all_combos
update_all_combos(net) ==
    /\ offered' = offered \cup net.nodes
    /\ listbox' = net.nodes

Edited(r) == r.net # CurrentNet

\* A caller asks for one shortest path.
Dijkstra(start, end, weight_type) ==
    /\ Idle
    /\ LET r == dijkstra(CurrentNet, start, end, weight_type)
       IN ret' = [NoCall EXCEPT !.op = "dijkstra", !.a = start, !.b = end,
                                !.metric = weight_type, !.outcome = r.kind,
                                !.path = r.path, !.weight = r.weight]
    /\ UNCHANGED <<nodes, node_pos, edges, locations, edge_weights, offered, listbox, ops>>

\* "Calculate Optimal Route"
CalculateRoute(start, selected, weight_type, order) ==
    /\ Idle
    /\ ret' = calculate_route(CurrentNet, start, selected, weight_type, order)
    /\ UNCHANGED <<nodes, node_pos, edges, locations, edge_weights, offered, listbox, ops>>

\* "Add Location"
AddNewLocation(text, pos) ==
    /\ Idle
    /\ LET r == add_new_location(CurrentNet, text, pos)
       IN /\ Edited(r) => ops < MaxOps
          /\ SetNet(r.net)
          /\ ret' = r.ret
          /\ IF Edited(r) THEN update_all_combos(r.net) ELSE UNCHANGED <<offered, listbox>>
          /\ ops' = IF Edited(r) THEN ops + 1 ELSE ops

\* "Add Route"
AddNewRoute(from_loc, to_loc, form) ==
    /\ Idle
    /\ LET r == add_new_route(CurrentNet, from_loc, to_loc, form)
       IN /\ r.ret.outcome \in {"ok", "draw_raised"} => ops < MaxOps
          /\ SetNet(r.net)
          /\ ret' = r.ret
          /\ ops' = IF r.ret.outcome \in {"ok", "draw_raised"} THEN ops + 1 ELSE ops
    /\ UNCHANGED <<offered, listbox>>

\* "Remove"
RemoveLocation(loc, confirm) ==
    /\ Idle
    /\ LET r == remove_location(CurrentNet, loc, confirm)
       IN /\ Edited(r) => ops < MaxOps
          /\ SetNet(r.net)
          /\ ret' = r.ret
          /\ IF Edited(r) THEN update_all_combos(r.net) ELSE UNCHANGED <<offered, listbox>>
          /\ ops' = IF Edited(r) THEN ops + 1 ELSE ops

\* The call is over: control is back in the caller, or in the main loop.
Return ==
    /\ ~Idle
    /\ ret' = NoCall
    /\ UNCHANGED <<nodes, node_pos, edges, locations, edge_weights, offered, listbox, ops>>

\* The texts a combobox can show: none (as created), or a value picked
\* while it was offered; setting 'values' leaves the text as it is.
Shown == {""} \cup offered

Selections == {s \in SUBSET (listbox \cap StopPicks) : Cardinality(s) <= MaxStops}

Next ==
    \/ \E start \in QueryPicks, end \in QueryPicks, m \in Metrics : Dijkstra(start, end, m)
    \/ \E start \in offered \cap StartPicks, selected \in Selections, m \in Metrics :
         \E order \in Perms(selected \ {start}) : CalculateRoute(start, selected, m, order)
    \/ \E text \in NameTexts, pos \in RandomPos : AddNewLocation(text, pos)
    \/ \E from_loc \in Shown \cap RoutePicks, to_loc \in Shown \cap RoutePicks,
          form \in RouteForms : AddNewRoute(from_loc, to_loc, form)
    \/ \E loc \in Shown \cap RemovePicks, confirm \in BOOLEAN : RemoveLocation(loc, confirm)
    \/ Return

Spec == Init /\ [][Next]_vars

----------------------------------------------------------------------------
(* Networks built by hand: every location of the sample removed, four of   *)
(* them added again and routes added between them.                         *)

SmallNames == {"Warehouse", "City_A", "City_B", "City_E"}

\* The pairs a route is added to, as (From, To).
SmallPairs ==
    << <<"Warehouse", "City_A">>, <<"Warehouse", "City_B">>, <<"Warehouse", "City_E">>,
       <<"City_A", "City_B">>, <<"City_A", "City_E">>, <<"City_B", "City_E">> >>

\* The weights entered for a route: equal sums and zero weights occur.
SmallWeights == <<W(1, 0, 3), W(2, 5, 3)>>

RECURSIVE RemoveAll(_, _)
RemoveAll(net, todo) ==
    IF todo = {} THEN net
    ELSE LET loc == CHOOSE x \in todo : TRUE
         IN RemoveAll(remove_location(net, loc, TRUE).net, todo \ {loc})

RECURSIVE AddAll(_, _)
AddAll(net, todo) ==
    IF todo = {} THEN net
    ELSE LET loc == CHOOSE x \in todo : TRUE
         IN AddAll(add_location(net, loc, CHOOSE pos \in RandomPos : TRUE), todo \ {loc})

\* choice[i] is 0 for no route between the i-th pair, or the index of its weights.
RECURSIVE AddChosen(_, _, _)
AddChosen(net, choice, i) ==
    IF i > Len(SmallPairs) THEN net
    ELSE LET w == SmallWeights[choice[i]]
             net1 == IF choice[i] = 0 THEN net
                     ELSE add_route(net, SmallPairs[i][1], SmallPairs[i][2],
                                    w.distance, w.time, w.cost)
         IN AddChosen(net1, choice, i + 1)

BuiltNet(choice) ==
    AddChosen(AddAll(RemoveAll(SampleNet, SampleNet.nodes), SmallNames), choice, 1)

\* A network built by hand, with no edit left to make in this run.
InitBuilt ==
    \E choice \in [1..Len(SmallPairs) -> 0..Len(SmallWeights)] :
        LET net == BuiltNet(choice)
        IN /\ nodes = net.nodes
           /\ node_pos = net.node_pos
           /\ edges = net.edges
           /\ locations = net.locations
           /\ edge_weights = net.edge_weights
           /\ offered = SampleNet.nodes
           /\ listbox = net.nodes
           /\ ops = MaxOps
           /\ ret = NoCall

\* The sample network and its edits, and the networks built by hand.
SpecNetworks == (Init \/ InitBuilt) /\ [][Next]_vars

----------------------------------------------------------------------------
(* What the claims speak of, defined from the graph alone *)

\* The nodes joined to the nodes of S by routes.
RECURSIVE Reach(_, _)
Reach(e, S) ==
    LET T == S \cup UNION {neighbors(e, n) : n \in S}
    IN IF T = S THEN S ELSE Reach(e, T)

\* Both are nodes of the graph and routes lead from u to v.
Connected(u, v) == u \in nodes /\ v \in nodes /\ v \in Reach(edges, {u})

Last(p) == p[Len(p)]

\* Every path that extends p to end without visiting a node twice.
RECURSIVE SimplePaths(_, _, _)
SimplePaths(e, p, end) ==
    IF Last(p) = end THEN {p}
    ELSE UNION {SimplePaths(e, Append(p, nb), end) : nb \in neighbors(e, Last(p)) \ SeqSet(p)}

\* Consecutive pairs of p are routes.
IsPath(e, p) == \A i \in 1..(Len(p) - 1) : p[i] # p[i + 1] /\ has_edge(e, p[i], p[i + 1])

PathWeight(e, p, m) == SumSeq([i \in 1..(Len(p) - 1) |-> e[Pair(p[i], p[i + 1])][m]])

NonNegative(m) == \A r \in DOMAIN edges : edges[r][m] >= 0

DijkstraCalled == ret.op = "dijkstra"

\* C1: with non-negative weights and end reachable from start, dijkstra
\* returns a path from start to end along routes, its weight is the sum of
\* the metric along the path, and no path from start to end weighs less.
C1_DijkstraShortest ==
    (DijkstraCalled /\ NonNegative(ret.metric) /\ Connected(ret.a, ret.b)) =>
        /\ ret.outcome = "path"
        /\ ret.path # <<>>
        /\ ret.path[1] = ret.a
        /\ Last(ret.path) = ret.b
        /\ IsPath(edges, ret.path)
        /\ ret.weight = PathWeight(edges, ret.path, ret.metric)
        /\ \A p \in SimplePaths(edges, <<ret.a>>, ret.b) :
              ret.weight <= PathWeight(edges, p, ret.metric)

\* C1's case: on an edited network, the path returned has more routes than
\* another path between the same two locations, which weighs more.
C1_Witness ==
    /\ DijkstraCalled /\ NonNegative(ret.metric) /\ Connected(ret.a, ret.b)
    /\ ops > 0
    /\ ret.outcome = "path"
    /\ \E p \in SimplePaths(edges, <<ret.a>>, ret.b) :
          /\ Len(p) < Len(ret.path)
          /\ PathWeight(edges, p, ret.metric) > ret.weight

\* C1 without its condition on the weights (it fails: a negative weight
\* makes dijkstra return a path that is not the lightest).
C1_AnyWeights ==
    (DijkstraCalled /\ Connected(ret.a, ret.b)) =>
        /\ ret.outcome = "path"
        /\ \A p \in SimplePaths(edges, <<ret.a>>, ret.b) :
              ret.weight <= PathWeight(edges, p, ret.metric)

\* The network is the one initialize_sample_data builds.
AsInitialised == CurrentNet = SampleNet

SampleQuery ==
    /\ DijkstraCalled /\ AsInitialised
    /\ ret.a = "Warehouse" /\ ret.b = "City_E" /\ ret.metric = "distance"

\* C2 (as amended): the sample network has 8 locations and 12 routes, and
\* on it the shortest path from Warehouse to City_E by distance is
\* [Warehouse, Hub_1, City_D, City_E], of weight 53 (20 + 14 + 19).
C2_SampleShortest ==
    /\ Cardinality(DOMAIN SampleNet.locations) = 8
    /\ Cardinality(DOMAIN SampleNet.edges) = 12
    /\ SampleQuery =>
         /\ ret.outcome = "path"
         /\ ret.path = <<"Warehouse", "Hub_1", "City_D", "City_E">>
         /\ ret.weight = 53

\* C2's case: the query has been made on the sample network.
C2_Witness == SampleQuery /\ ret.outcome = "path"

\* C2 (as stated): the query returns [Warehouse, Hub_1, City_D, Hub_2,
\* City_E] with total weight 64.
C2_AsStated ==
    SampleQuery =>
        /\ ret.path = <<"Warehouse", "Hub_1", "City_D", "Hub_2", "City_E">>
        /\ ret.weight = 64

----------------------------------------------------------------------------
(* The shortest-path query outside its good case *)

PlannerCalled == ret.op = "calculate_route" /\ ret.stops # {}

PlannerReturned == PlannerCalled /\ ret.outcome \in {"ok", "draw_raised"}

\* C3: a query whose start or end is no location, or whose start and end
\* are not joined by routes, returns NotReachable, and no query raises.
C3_NotReachableNoException ==
    /\ (DijkstraCalled /\ ~Connected(ret.a, ret.b)) => ret.outcome = "none"
    /\ PlannerCalled => ret.outcome # "raised"

\* What holds of C3: with start a node of the graph the query returns
\* NotReachable exactly when end is not joined to it, and never raises.
C3_StartInGraph ==
    /\ (DijkstraCalled /\ ret.a \in nodes) =>
          ret.outcome = IF Connected(ret.a, ret.b) THEN "path" ELSE "none"
    /\ (PlannerCalled /\ ret.a \in nodes) => ret.outcome # "raised"

----------------------------------------------------------------------------
(* The multi-stop planner *)

\* The least weight of a path from u to v without a node twice.
MinWeight(u, v, m) ==
    LET ws == {PathWeight(edges, p, m) : p \in SimplePaths(edges, <<u>>, v)}
    IN CHOOSE x \in ws : \A y \in ws : x <= y

\* route, which starts at current, is a chain of legs, each a shortest path
\* to a stop that is nearest among the remaining stops routes lead to, and
\* the legs' weights sum to total; it ends where no remaining stop is
\* joined to the position.
RECURSIVE GreedyLegs(_, _, _, _, _)
GreedyLegs(current, remaining, route, total, m) ==
    LET near == {s \in remaining : Connected(current, s)}
    IN IF near = {} THEN route = <<current>> /\ total = 0
       ELSE \E s \in near, k \in 2..Len(route) :
              LET leg == SubSeq(route, 1, k)
              IN /\ route[k] = s
                 /\ IsPath(edges, leg)
                 /\ PathWeight(edges, leg, m) = MinWeight(current, s, m)
                 /\ \A t \in near : MinWeight(current, s, m) <= MinWeight(current, t, m)
                 /\ GreedyLegs(s, remaining \ {s}, SubSeq(route, k, Len(route)),
                               total - PathWeight(edges, leg, m), m)

\* C4: the route returned is a chain of greedily chosen shortest-path legs
\* and its total weight is the sum of the legs' weights and of the metric
\* over the route's consecutive pairs.
C4_GreedyLegs ==
    PlannerReturned =>
        /\ ret.path # <<>> /\ ret.path[1] = ret.a
        /\ GreedyLegs(ret.a, ret.stops, ret.path, ret.weight, ret.metric)
        /\ ret.weight = PathWeight(edges, ret.path, ret.metric)

\* What holds of C4: the same on the networks whose weights of the metric
\* are non-negative.
C4_NonNegative == (PlannerReturned /\ NonNegative(ret.metric)) => C4_GreedyLegs

\* C5: the planner returns a route (it does not fail) that starts at the
\* origin and holds, of the requested stops, exactly those routes lead to
\* from the origin, with the weight accumulated along it.
C5_PartialRoute ==
    PlannerCalled =>
        /\ ret.outcome # "raised"
        /\ ret.path # <<>> /\ ret.path[1] = ret.a
        /\ \A s \in ret.stops : s \in SeqSet(ret.path) <=> Connected(ret.a, s)
        /\ IsPath(edges, ret.path)
        /\ ret.weight = PathWeight(edges, ret.path, ret.metric)

\* What holds of C5: the same when the origin is a node of the graph.
C5_OriginInGraph == ret.a \in nodes => C5_PartialRoute

\* C6: when the route returned leaves a requested stop out, the number of
\* stops reported as visited is the number of requested stops on the route.
C6_PartialReported ==
    (PlannerReturned /\ \E s \in ret.stops : s \notin SeqSet(ret.path)) =>
        ret.stops_visited = Cardinality(ret.stops \cap SeqSet(ret.path))

----------------------------------------------------------------------------
(* The edits *)

Degree(e, n) == Cardinality({r \in DOMAIN e : n \in r})

\* The step of a call of op that went through to its end.
Done(op) == Idle /\ ret'.op = op /\ ret'.outcome \in {"ok", "draw_raised"}

\* C7: removing a location of the network removes it and exactly the routes
\* touching it, the other routes keep their weights, and no record of a
\* removed route is left in the network's state.
C7_RemoveExactly ==
    [][Done("remove_location") =>
        LET loc == ret'.a
        IN /\ nodes' = nodes \ {loc}
           /\ Cardinality(nodes') = Cardinality(nodes) - 1
           /\ loc \notin DOMAIN locations'
           /\ Cardinality(DOMAIN edges') = Cardinality(DOMAIN edges) - Degree(edges, loc)
           /\ \A r \in DOMAIN edges : loc \notin r => r \in DOMAIN edges' /\ edges'[r] = edges[r]
           /\ \A r \in DOMAIN edges' : r \in DOMAIN edges /\ loc \notin r
           /\ \A k \in DOMAIN edge_weights' : loc \notin {k[1], k[2]}]_vars

\* What holds of C7: all of it but the last line, on the graph.
C7_GraphOnly ==
    [][Done("remove_location") =>
        LET loc == ret'.a
        IN /\ nodes' = nodes \ {loc}
           /\ Cardinality(nodes') = Cardinality(nodes) - 1
           /\ loc \notin DOMAIN locations'
           /\ Cardinality(DOMAIN edges') = Cardinality(DOMAIN edges) - Degree(edges, loc)
           /\ \A r \in DOMAIN edges : loc \notin r => r \in DOMAIN edges' /\ edges'[r] = edges[r]
           /\ \A r \in DOMAIN edges' : r \in DOMAIN edges /\ loc \notin r]_vars

\* C8: adding a route between two locations that have one, in either
\* order, replaces the three weights, leaves the number of routes as it was
\* and creates no second record for the pair.
C8_OverwriteNoSecondRecord ==
    [][(Done("add_new_route") /\ has_edge(edges, ret'.a, ret'.b)) =>
        /\ edges'[Pair(ret'.a, ret'.b)] = ret'.w
        /\ Cardinality(DOMAIN edges') = Cardinality(DOMAIN edges)
        /\ edge_weights'[<<ret'.a, ret'.b>>] = ret'.w
        /\ Cardinality(DOMAIN edge_weights') = Cardinality(DOMAIN edge_weights)]_vars

\* What holds of C8: the same on the graph, where the pair is unordered.
C8_GraphOnly ==
    [][(Done("add_new_route") /\ has_edge(edges, ret'.a, ret'.b)) =>
        /\ edges'[Pair(ret'.a, ret'.b)] = ret'.w
        /\ DOMAIN edges' = DOMAIN edges
        /\ \A r \in DOMAIN edges \ {Pair(ret'.a, ret'.b)} : edges'[r] = edges[r]]_vars

\* C9: both endpoints of every route are current locations.
C9_RoutesJoinLocations == \A r \in DOMAIN edges : r \subseteq DOMAIN locations

\* C10: adding a location whose name is present fails ("Location already
\* exists!") and leaves the locations, their positions and the routes as
\* they were.
C10_DuplicateLocation ==
    [][(Idle /\ ret'.op = "add_new_location" /\ ret'.a \in nodes) =>
        /\ ret'.outcome = "exists"
        /\ nodes' = nodes
        /\ node_pos' = node_pos
        /\ locations' = locations
        /\ edges' = edges
        /\ edge_weights' = edge_weights]_vars

\* C10's case: a name already present was entered, of the sample or added
\* before, and the call refused it.
C10_Witness ==
    /\ ret.op = "add_new_location" /\ ret.outcome = "exists"
    /\ ret.a \in nodes /\ ret.a \in DOMAIN locations
    /\ ret.pos # locations[ret.a]

----------------------------------------------------------------------------
(* The weights *)

WeightNonNegative(w) == w.distance >= 0 /\ w.time >= 0 /\ w.cost >= 0

\* C11: no add-route request carrying a negative distance, time or cost goes
\* through, so the three weights of every route are non-negative.
C11_NegativeRejected ==
    /\ (ret.op = "add_new_route" /\ ret.outcome \in {"ok", "draw_raised"})
          => WeightNonNegative(ret.w)
    /\ \A r \in DOMAIN edges : WeightNonNegative(edges[r])

\* What holds of C11: a request whose entry is not a number is refused
\* ("Please enter valid numbers!") and leaves the network as it was.
C11_NonNumericRejected ==
    [][(Idle /\ ret'.op = "add_new_route" /\ ret'.outcome = "invalid") =>
        /\ nodes' = nodes
        /\ node_pos' = node_pos
        /\ locations' = locations
        /\ edges' = edges
        /\ edge_weights' = edge_weights]_vars

\* A request with an entry that is not a number was refused.
C11_NonNumericSeen == ret.op = "add_new_route" /\ ret.outcome = "invalid"

----------------------------------------------------------------------------
(* The totals of a route *)

MaxRouteLen == 3

RouteNames == {"Warehouse", "City_A", "Hub_1", "City_E", "Depot"}

\* The routes handed to the loop: any sequence of names, following routes
\* of the network or not.
SuppliedRoutes == UNION {[1..n -> RouteNames] : n \in 1..MaxRouteLen}

\* The loop of calculate_route on a route that is handed to it; it has no
\* branch that fails.
Summarise(route) ==
    /\ Idle
    /\ ret' = [NoCall EXCEPT !.op = "route_totals", !.outcome = "ok", !.path = route,
                             !.totals = RouteTotals(edges, route)]
    /\ UNCHANGED <<nodes, node_pos, edges, locations, edge_weights, offered, listbox, ops>>

NextMetrics ==
    \/ Next
    \/ \E route \in SuppliedRoutes : Summarise(route)

SpecMetrics == Init /\ [][NextMetrics]_vars

Summarised == ret.op \in {"route_totals", "calculate_route"} /\ ret.outcome \in {"ok", "draw_raised"}

C12_UnbrokenTotals ==
    /\ (Summarised /\ IsPath(edges, ret.path)) =>
          \A m \in Metrics : ret.totals[m] = PathWeight(edges, ret.path, m)
    /\ PlannerReturned => IsPath(edges, ret.path)

----------------------------------------------------------------------------
(* The table edge_weights *)

\* The entries of edge_weights for the unordered pair r.
EntriesOf(r) == {k \in DOMAIN edge_weights : Pair(k[1], k[2]) = r}

\* C13: edge_weights agrees with the graph: one entry for every route, no
\* entry for a pair that is no route, and every entry holds the three
\* weights of its route.
C13_EdgeWeightsAgree ==
    /\ \A r \in DOMAIN edges : Cardinality(EntriesOf(r)) = 1
    /\ \A k \in DOMAIN edge_weights :
          /\ has_edge(edges, k[1], k[2])
          /\ edge_weights[k] = edges[Pair(k[1], k[2])]

\* What holds of C13: every route has an entry, in one order of its ends or
\* the other, that holds its three weights.
C13_EveryRouteRecorded ==
    \A r \in DOMAIN edges : \E k \in EntriesOf(r) : edge_weights[k] = edges[r]

\* An edit has left an entry behind: of a route that is gone, or with
\* weights the route no longer has.
C13_StaleEntrySeen ==
    \E k \in DOMAIN edge_weights :
        \/ ~has_edge(edges, k[1], k[2])
        \/ edge_weights[k] # edges[Pair(k[1], k[2])]

====
